---- MODULE Spec2Model ----
(***************************************************************************)
(* State-machine model of the Sudoku solver engine (grid.c, resolution.c). *)
(*                                                                         *)
(* The grid is the tGrid structure: the cells (value, hasCandidate array,  *)
(* cached candidate count) and the three availability tables.  One step of *)
(* the model is one call of a grid primitive (grid_cell_removeCandidate,   *)
(* grid_cell_provideValue, grid_markValueFree) or one control step of a    *)
(* technique (the scan that decides which primitive calls it will make).   *)
(* The calls a technique has decided on and not yet made are held in       *)
(* `queue`; a technique is at its entry or exit when the queue is empty.   *)
(***************************************************************************)
EXTENDS Integers, Sequences, FiniteSets, TLC

\* grid.N, the block side (tGrid.N set by grid_create).
N == 2

\* grid_size(grid): the side of the grid, N * N.
grid_size == N * N

\* PAIR_SIZE of const.c.
PAIR_SIZE == 2

\* Number of leading entries of GivenCells an input file may fill.
MaxGivens == 4

Axis == 0 .. (grid_size - 1)
Values == 1 .. grid_size
Slots == 0 .. grid_size
BlockAxis == 0 .. (N - 1)
Positions == Axis \X Axis
CellCount == grid_size * grid_size

\* NULL: an array not yet allocated has no element.
NULL == <<>>

\* Row-major position of the k-th cell (k from 0), as the nested r/c loops
\* of grid.c and resolution.c visit them.
PosOf(k) == <<k \div grid_size, k % grid_size>>

Min(s) == CHOOSE x \in s : \A y \in s : x <= y

BoolToInt(b) == IF b THEN 1 ELSE 0

(***************************************************************************)
(* tCell and its accessors (tCell.c).                                      *)
(***************************************************************************)
\* A cell as array_calloc leaves it: no value, no candidate, count 0.
EmptyCell ==
    [value |-> 0, hasCandidate |-> [v \in Slots |-> FALSE], candidateCount |-> 0]

cell_hasValue(cell) == cell.value # 0

cell_candidate_count(cell) == cell.candidateCount

cell_hasCandidate(cell, candidate) == cell.hasCandidate[candidate]

\* The k-th candidate (1-indexed) in ascending order; grid_size + 1 when the
\* array holds fewer than k candidates (the scan runs off the end).
cell_candidateAt(cell, k) ==
    LET having == {v \in Values : cell.hasCandidate[v]}
        atK == {v \in having : Cardinality({w \in having : w <= v}) = k}
    IN  IF atK = {} THEN grid_size + 1 ELSE Min(atK)

cell_get_first_candidate(cell) == cell_candidateAt(cell, 1)

(***************************************************************************)
(* tGrid, the availability tables and the primitives of grid.c.            *)
(***************************************************************************)
grid_create ==
    [cells |-> NULL, isColumnFree |-> NULL, isRowFree |-> NULL, isBlockFree |-> NULL]

grid_cellAt(grid, row, column) == grid.cells[<<row, column>>]

grid_cellAtPos(grid, pos) == grid.cells[pos]

grid_blockIndex(index) == index - (index % N)

\* grid_markValueFree that stores `not free` whatever isFree is.
grid_markValueFree_neverFree(isFree, grid, row, column, value) ==
    [grid EXCEPT !.isColumnFree[column][value] = FALSE,
                 !.isRowFree[row][value] = FALSE,
                 !.isBlockFree[<<row \div N, column \div N>>][value] = FALSE]

grid_markValueFree(isFree, grid, row, column, value) ==
    [grid EXCEPT !.isColumnFree[column][value] = isFree,
                 !.isRowFree[row][value] = isFree,
                 !.isBlockFree[<<row \div N, column \div N>>][value] = isFree]

\* grid_possible without the test of the block.
grid_possible_noBlock(grid, row, column, value) ==
    /\ grid.isColumnFree[column][value]
    /\ grid.isRowFree[row][value]

grid_possible(grid, row, column, value) ==
    /\ grid.isColumnFree[column][value]
    /\ grid.isRowFree[row][value]
    /\ grid.isBlockFree[<<row \div N, column \div N>>][value]

grid_cellPossibleValuesCount(grid, row, column) ==
    Cardinality({val \in Values : grid_possible(grid, row, column, val)})

\* grid_cell_removeCandidate that also commits a cell the removal leaves
\* with a single candidate.
grid_cell_removeCandidate_cascading(grid, row, column, candidate) ==
    LET cell == grid_cellAt(grid, row, column)
        pos == <<row, column>>
        left == [cell EXCEPT !.hasCandidate[candidate] = FALSE,
                             !.candidateCount = @ - 1]
    IN  IF /\ cell_candidate_count(cell) = 1
           /\ cell_get_first_candidate(cell) = candidate
        THEN [grid |-> grid_markValueFree(FALSE,
                          [grid EXCEPT !.cells[pos].value = candidate,
                                       !.cells[pos].hasCandidate[candidate] = FALSE,
                                       !.cells[pos].candidateCount = 0],
                          row, column, candidate),
              ret |-> TRUE]
        ELSE IF cell_hasCandidate(cell, candidate) /\ cell_candidate_count(left) = 1
        THEN [grid |-> grid_markValueFree(FALSE,
                          [grid EXCEPT !.cells[pos] =
                              [value |-> cell_get_first_candidate(left),
                               hasCandidate |-> [v \in Slots |-> FALSE],
                               candidateCount |-> 0]],
                          row, column, cell_get_first_candidate(left)),
              ret |-> TRUE]
        ELSE IF cell_hasCandidate(cell, candidate)
        THEN [grid |-> [grid EXCEPT !.cells[pos] = left], ret |-> TRUE]
        ELSE [grid |-> grid, ret |-> FALSE]

\* grid_cell_removeCandidate without the decrement of _candidateCount.
grid_cell_removeCandidate_countKept(grid, row, column, candidate) ==
    LET cell == grid_cellAt(grid, row, column)
        pos == <<row, column>>
    IN  IF /\ cell_candidate_count(cell) = 1
           /\ cell_get_first_candidate(cell) = candidate
        THEN [grid |-> grid_markValueFree(FALSE,
                          [grid EXCEPT !.cells[pos].value = candidate,
                                       !.cells[pos].hasCandidate[candidate] = FALSE,
                                       !.cells[pos].candidateCount = 0],
                          row, column, candidate),
              ret |-> TRUE]
        ELSE IF cell_hasCandidate(cell, candidate)
        THEN [grid |-> [grid EXCEPT !.cells[pos].hasCandidate[candidate] = FALSE],
              ret |-> TRUE]
        ELSE [grid |-> grid, ret |-> FALSE]

\* grid_cell_removeCandidate that returns true also when the cell did not
\* have the candidate.
grid_cell_removeCandidate_alwaysTrue(grid, row, column, candidate) ==
    LET cell == grid_cellAt(grid, row, column)
        pos == <<row, column>>
    IN  IF /\ cell_candidate_count(cell) = 1
           /\ cell_get_first_candidate(cell) = candidate
        THEN [grid |-> grid_markValueFree(FALSE,
                          [grid EXCEPT !.cells[pos].value = candidate,
                                       !.cells[pos].hasCandidate[candidate] = FALSE,
                                       !.cells[pos].candidateCount = 0],
                          row, column, candidate),
              ret |-> TRUE]
        ELSE IF cell_hasCandidate(cell, candidate)
        THEN [grid |-> [grid EXCEPT !.cells[pos].hasCandidate[candidate] = FALSE,
                                    !.cells[pos].candidateCount = @ - 1],
              ret |-> TRUE]
        ELSE [grid |-> grid, ret |-> TRUE]

\* grid_cell_removeCandidate: the grid after the call and the returned flag.
grid_cell_removeCandidate(grid, row, column, candidate) ==
    LET cell == grid_cellAt(grid, row, column)
        pos == <<row, column>>
    IN  IF /\ cell_candidate_count(cell) = 1
           /\ cell_get_first_candidate(cell) = candidate
        THEN [grid |-> grid_markValueFree(FALSE,
                          [grid EXCEPT !.cells[pos].value = candidate,
                                       !.cells[pos].hasCandidate[candidate] = FALSE,
                                       !.cells[pos].candidateCount = 0],
                          row, column, candidate),
              ret |-> TRUE]
        ELSE IF cell_hasCandidate(cell, candidate)
        THEN [grid |-> [grid EXCEPT !.cells[pos].hasCandidate[candidate] = FALSE,
                                    !.cells[pos].candidateCount = @ - 1],
              ret |-> TRUE]
        ELSE [grid |-> grid, ret |-> FALSE]

\* The three assertions of grid_cell_provideValue.
grid_cell_provideValue_asserts(grid, row, column, value) ==
    /\ grid_possible(grid, row, column, value)
    /\ 1 <= value /\ value <= grid_size
    /\ ~cell_hasValue(grid_cellAt(grid, row, column))

\* grid_cell_provideValue without the call of grid_markValueFree.
grid_cell_provideValue_unmarked(grid, row, column, value) ==
    [grid EXCEPT !.cells[<<row, column>>] =
        [value |-> value,
         hasCandidate |-> [v \in Slots |-> FALSE],
         candidateCount |-> 0]]

grid_cell_provideValue(grid, row, column, value) ==
    grid_markValueFree(FALSE,
        [grid EXCEPT !.cells[<<row, column>>] =
            [value |-> value,
             hasCandidate |-> [v \in Slots |-> FALSE],
             candidateCount |-> 0]],
        row, column, value)

(***************************************************************************)
(* grid_load.                                                              *)
(***************************************************************************)
\* The grid after the allocations and the three memsets of grid_load.
grid_load_allocated ==
    [cells |-> [p \in Positions |-> EmptyCell],
     isColumnFree |-> [c \in Axis |-> [v \in Slots |-> TRUE]],
     isRowFree |-> [r \in Axis |-> [v \in Slots |-> TRUE]],
     isBlockFree |-> [b \in BlockAxis \X BlockAxis |-> [v \in Slots |-> TRUE]]]

\* First loop of grid_load from cell k on: stores the non-zero values and
\* marks them not free; stops with ok = FALSE at the first value above
\* grid_size (fail_invalid_data), leaving the grid as it is at that point.
RECURSIVE grid_load_values(_, _, _)
grid_load_values(grid, gridValues, k) ==
    IF k = CellCount THEN [grid |-> grid, ok |-> TRUE]
    ELSE LET pos == PosOf(k)
             value == gridValues[pos]
         IN  IF value = 0 THEN grid_load_values(grid, gridValues, k + 1)
             ELSE IF value > grid_size THEN [grid |-> grid, ok |-> FALSE]
             ELSE grid_load_values(
                      grid_markValueFree(FALSE,
                          [grid EXCEPT !.cells[pos].value = value],
                          pos[1], pos[2], value),
                      gridValues, k + 1)

\* Second loop of grid_load without the test of grid_possible: every value
\* is a candidate of every cell without a value.
grid_load_candidates_unfiltered(grid) ==
    [grid EXCEPT !.cells = [pos \in Positions |->
        IF cell_hasValue(grid.cells[pos]) THEN grid.cells[pos]
        ELSE [grid.cells[pos] EXCEPT
                 !.hasCandidate = [v \in Slots |-> v # 0],
                 !.candidateCount = grid_size]]]

\* Second loop of grid_load: the candidates of every cell without a value.
grid_load_candidates(grid) ==
    [grid EXCEPT !.cells = [pos \in Positions |->
        IF cell_hasValue(grid.cells[pos]) THEN grid.cells[pos]
        ELSE [grid.cells[pos] EXCEPT
                 !.hasCandidate = [v \in Slots |->
                     v # 0 /\ grid_possible(grid, pos[1], pos[2], v)],
                 !.candidateCount =
                     grid_cellPossibleValuesCount(grid, pos[1], pos[2])]]]

grid_load(gridValues) ==
    LET loaded == grid_load_values(grid_load_allocated, gridValues, 0)
    IN  IF loaded.ok
        THEN [grid |-> grid_load_candidates(loaded.grid), ok |-> TRUE]
        ELSE loaded

(***************************************************************************)
(* Pending primitive calls.  A technique's scan decides the calls it makes *)
(* and their order; each is one entry of the queue.                        *)
(***************************************************************************)
\* progress |= grid_cell_removeCandidate(grid, row, column, candidate)
RemoveOp(row, column, candidate) ==
    [op |-> "removeCandidate", row |-> row, column |-> column,
     candidate |-> candidate, pair |-> <<>>, accumulate |-> TRUE]

\* grid_cell_removeCandidate(grid, row, column, candidate), result unused
Discarded(ops) == [k \in 1 .. Len(ops) |-> [ops[k] EXCEPT !.accumulate = FALSE]]

\* grid_cell_provideValue(grid, row, column, candidate)
ProvideOp(row, column, candidate) ==
    [op |-> "provideValue", row |-> row, column |-> column,
     candidate |-> candidate, pair |-> <<>>, accumulate |-> FALSE]

\* progress = true
ProgressOp ==
    [op |-> "progress", row |-> 0, column |-> 0, candidate |-> 0, pair |-> <<>>,
     accumulate |-> FALSE]

\* One iteration of the elimination loop of technique_nakedPair on a cell.
NakedPairCellOp(row, column, pair) ==
    [op |-> "nakedPairCell", row |-> row, column |-> column,
     candidate |-> 0, pair |-> pair, accumulate |-> TRUE]

\* The cells of rows [rStart, rEnd) and columns [cStart, cEnd) in the order
\* of the nested loops `for r ... for c ...`.
RangeCells(rStart, rEnd, cStart, cEnd) ==
    LET w == cEnd - cStart
    IN  [k \in 1 .. ((rEnd - rStart) * w) |->
            <<rStart + ((k - 1) \div w), cStart + ((k - 1) % w)>>]

RowCells(row) == RangeCells(row, row + 1, 0, grid_size)

ColumnCells(column) == RangeCells(0, grid_size, column, column + 1)

BlockCells(row, column) ==
    RangeCells(grid_blockIndex(row), grid_blockIndex(row) + N,
               grid_blockIndex(column), grid_blockIndex(column) + N)

RemoveFrom(cells, candidate) ==
    [k \in 1 .. Len(cells) |-> RemoveOp(cells[k][1], cells[k][2], candidate)]

grid_removeCandidateFromRow(row, candidate) ==
    RemoveFrom(RowCells(row), candidate)

grid_removeCandidateFromColumn(column, candidate) ==
    RemoveFrom(ColumnCells(column), candidate)

\* grid_removeCandidateFromBlock whose row loop stops after the first row
\* of the block.
grid_removeCandidateFromBlock_firstRow(row, column, candidate) ==
    RemoveFrom(RangeCells(grid_blockIndex(row), grid_blockIndex(row) + 1,
                          grid_blockIndex(column), grid_blockIndex(column) + N),
               candidate)

grid_removeCandidateFromBlock(row, column, candidate) ==
    RemoveFrom(BlockCells(row, column), candidate)

(***************************************************************************)
(* technique_nakedSingleton.                                               *)
(***************************************************************************)
\* technique_nakedSingleton without `progress |=` on its three calls.
technique_nakedSingleton_unreported(grid, row, column) ==
    LET cell == grid_cellAt(grid, row, column)
        candidate == cell_get_first_candidate(cell)
    IN  IF cell_candidate_count(cell) = 1
        THEN Discarded(grid_removeCandidateFromRow(row, candidate)
                       \o grid_removeCandidateFromColumn(column, candidate)
                       \o grid_removeCandidateFromBlock(row, column, candidate))
        ELSE <<>>

technique_nakedSingleton(grid, row, column) ==
    LET cell == grid_cellAt(grid, row, column)
        candidate == cell_get_first_candidate(cell)
    IN  IF cell_candidate_count(cell) = 1
        THEN grid_removeCandidateFromRow(row, candidate)
             \o grid_removeCandidateFromColumn(column, candidate)
             \o grid_removeCandidateFromBlock(row, column, candidate)
        ELSE <<>>

(***************************************************************************)
(* technique_hiddenSingleton.                                              *)
(***************************************************************************)
\* candidateCounts[candidate] after the counting loop.
hiddenSingleton_candidateCounts(grid, cells, candidate) ==
    Cardinality({k \in 1 .. Len(cells) :
        cell_hasCandidate(grid_cellAtPos(grid, cells[k]), candidate)})

\* technique_hiddenSingleton_findUniqueCandidate whose search stops at the
\* first candidate with a count other than 0 (`== 0` for `!= 1`).
technique_hiddenSingleton_findUniqueCandidate_present(grid, rStart, rEnd, cStart, cEnd) ==
    LET cells == RangeCells(rStart, rEnd, cStart, cEnd)
        present == {v \in Values : hiddenSingleton_candidateCounts(grid, cells, v) # 0}
        candidate == IF present = {} THEN grid_size + 1 ELSE Min(present)
        holders == {k \in 1 .. Len(cells) :
                       cell_hasCandidate(grid_cellAtPos(grid, cells[k]), candidate)}
    IN  IF candidate = grid_size + 1
        THEN [candidate |-> 0, pos |-> <<0, 0>>, failed |-> FALSE]
        ELSE IF holders = {}
        THEN [candidate |-> candidate, pos |-> <<0, 0>>, failed |-> TRUE]
        ELSE [candidate |-> candidate, pos |-> cells[Min(holders)], failed |-> FALSE]

\* The returned candidate (0 when none) and *candidatePosition.  `failed`
\* is the fall-through to dbg_fail.
technique_hiddenSingleton_findUniqueCandidate(grid, rStart, rEnd, cStart, cEnd) ==
    LET cells == RangeCells(rStart, rEnd, cStart, cEnd)
        unique == {v \in Values : hiddenSingleton_candidateCounts(grid, cells, v) = 1}
        candidate == IF unique = {} THEN grid_size + 1 ELSE Min(unique)
        holders == {k \in 1 .. Len(cells) :
                       cell_hasCandidate(grid_cellAtPos(grid, cells[k]), candidate)}
    IN  IF candidate = grid_size + 1
        THEN [candidate |-> 0, pos |-> <<0, 0>>, failed |-> FALSE]
        ELSE IF holders = {}
        THEN [candidate |-> candidate, pos |-> <<0, 0>>, failed |-> TRUE]
        ELSE [candidate |-> candidate, pos |-> cells[Min(holders)], failed |-> FALSE]

\* The group scanned by each of the three parts of technique_hiddenSingleton:
\* 0 the block, 1 the row, 2 the column of the target cell.
GroupRange(part, row, column) ==
    IF part = 0
    THEN <<grid_blockIndex(row), grid_blockIndex(row) + N,
           grid_blockIndex(column), grid_blockIndex(column) + N>>
    ELSE IF part = 1 THEN <<row, row + 1, 0, grid_size>>
    ELSE <<0, grid_size, column, column + 1>>

hiddenSingleton_find(grid, part, row, column) ==
    LET rg == GroupRange(part, row, column)
    IN  technique_hiddenSingleton_findUniqueCandidate(grid, rg[1], rg[2], rg[3], rg[4])

\* The calls of one part of technique_hiddenSingleton once a unique
\* candidate was found.
technique_hiddenSingleton(grid, part, row, column) ==
    LET found == hiddenSingleton_find(grid, part, row, column)
        p == found.pos
        v == found.candidate
    IN  IF v = 0 THEN <<>>
        ELSE <<ProvideOp(p[1], p[2], v)>>
             \o Discarded(IF part = 0
                 THEN grid_removeCandidateFromRow(p[1], v)
                      \o grid_removeCandidateFromColumn(p[2], v)
                 ELSE IF part = 1
                 THEN grid_removeCandidateFromBlock(p[1], p[2], v)
                      \o grid_removeCandidateFromColumn(p[2], v)
                 ELSE grid_removeCandidateFromBlock(p[1], p[2], v)
                      \o grid_removeCandidateFromRow(p[1], v))
             \o <<ProgressOp>>

\* technique_nakedPair_isPairCell without the test of the candidate count.
technique_nakedPair_isPairCell_anyCount(cell, pair) ==
    /\ cell_hasCandidate(cell, pair[1])
    /\ cell_hasCandidate(cell, pair[2])

(***************************************************************************)
(* technique_nakedPair.                                                    *)
(***************************************************************************)
technique_nakedPair_isPairCell(cell, pair) ==
    /\ cell_candidate_count(cell) = 2
    /\ cell_hasCandidate(cell, pair[1])
    /\ cell_hasCandidate(cell, pair[2])

\* pair.count after the search loop, which starts at 1 and stops as soon as
\* it reaches 2.
nakedPair_count(grid, row, column, pair) ==
    LET cells == BlockCells(row, column)
    IN  IF \E k \in 1 .. Len(cells) :
               /\ cells[k] # <<row, column>>
               /\ technique_nakedPair_isPairCell(grid_cellAtPos(grid, cells[k]), pair)
        THEN 2 ELSE 1

technique_nakedPair(grid, row, column) ==
    LET cell == grid_cellAt(grid, row, column)
        pair == <<cell_candidateAt(cell, 1), cell_candidateAt(cell, 2)>>
        cells == BlockCells(row, column)
    IN  IF cell_candidate_count(cell) = 2 /\ nakedPair_count(grid, row, column, pair) = 2
        THEN [k \in 1 .. Len(cells) |-> NakedPairCellOp(cells[k][1], cells[k][2], pair)]
        ELSE <<>>

(***************************************************************************)
(* technique_hiddenPair.                                                   *)
(***************************************************************************)
\* The scan of technique_hiddenPair_findPairCells from the k-th cell of the
\* group on: nb is nbPairCells, other is
\* nbPairCellsContainingOtherCandidates, second is pairCellPositions[1].
RECURSIVE hiddenPair_scan(_, _, _, _, _, _, _, _)
hiddenPair_scan(grid, candidates, cells, first, k, nb, other, second) ==
    IF k > Len(cells) \/ ~(nb <= PAIR_SIZE + 1)
    THEN [found |-> (nb = PAIR_SIZE /\ other > 0), second |-> second]
    ELSE IF cells[k] = first
    THEN hiddenPair_scan(grid, candidates, cells, first, k + 1, nb, other, second)
    ELSE LET cell == grid_cellAtPos(grid, cells[k])
         IN  IF /\ cell_hasCandidate(cell, candidates[1])
                /\ cell_hasCandidate(cell, candidates[2])
             THEN hiddenPair_scan(grid, candidates, cells, first, k + 1, nb + 1,
                      other + BoolToInt(cell_candidate_count(cell) > PAIR_SIZE),
                      IF nb < PAIR_SIZE THEN cells[k] ELSE second)
             ELSE IF \/ cell_hasCandidate(cell, candidates[1])
                     \/ cell_hasCandidate(cell, candidates[2])
             THEN [found |-> FALSE, second |-> second]
             ELSE hiddenPair_scan(grid, candidates, cells, first, k + 1, nb, other, second)

technique_hiddenPair_findPairCells(grid, candidates, rStart, rEnd, cStart, cEnd, first) ==
    hiddenPair_scan(grid, candidates, RangeCells(rStart, rEnd, cStart, cEnd),
                    first, 1, 1, 0, first)

\* The first pair (candidates[0] < candidates[1]) of candidates of the first
\* pair cell, in the order of the two nested loops, that
\* technique_hiddenPair_findPairCells accepts.
technique_hiddenPair_findPair(grid, rStart, rEnd, cStart, cEnd, first) ==
    LET firstPairCell == grid_cellAtPos(grid, first)
        pairs == {pr \in Values \X Values :
                     /\ pr[1] < pr[2]
                     /\ cell_hasCandidate(firstPairCell, pr[1])
                     /\ cell_hasCandidate(firstPairCell, pr[2])
                     /\ technique_hiddenPair_findPairCells(
                            grid, pr, rStart, rEnd, cStart, cEnd, first).found}
        pair == CHOOSE pr \in pairs : \A qr \in pairs :
                    pr[1] < qr[1] \/ (pr[1] = qr[1] /\ pr[2] <= qr[2])
    IN  IF pairs = {}
        THEN [found |-> FALSE, candidates |-> <<0, 0>>, positions |-> <<first, first>>]
        ELSE [found |-> TRUE, candidates |-> pair,
              positions |-> <<first,
                  technique_hiddenPair_findPairCells(
                      grid, pair, rStart, rEnd, cStart, cEnd, first).second>>]

\* technique_hiddenPair_removePairCells whose removals do not reach its
\* progress flag.
technique_hiddenPair_removePairCells_unreported(pairCellPositions, candidates) ==
    LET others == [k \in 1 .. (grid_size - Cardinality({candidates[1], candidates[2]})) |->
                      Min({v \in Values :
                          /\ v # candidates[1] /\ v # candidates[2]
                          /\ Cardinality({w \in Values : w # candidates[1]
                                 /\ w # candidates[2] /\ w <= v}) = k})]
        On(pos) == [k \in 1 .. Len(others) |-> RemoveOp(pos[1], pos[2], others[k])]
    IN  Discarded(On(pairCellPositions[1]) \o On(pairCellPositions[2]))

\* The removals technique_hiddenPair_removePairCells attempts: every
\* candidate but those of the pair, on each of the two pair cells.
technique_hiddenPair_removePairCells(pairCellPositions, candidates) ==
    LET others == [k \in 1 .. (grid_size - Cardinality({candidates[1], candidates[2]})) |->
                      Min({v \in Values :
                          /\ v # candidates[1] /\ v # candidates[2]
                          /\ Cardinality({w \in Values : w # candidates[1]
                                 /\ w # candidates[2] /\ w <= v}) = k})]
        On(pos) == [k \in 1 .. Len(others) |-> RemoveOp(pos[1], pos[2], others[k])]
    IN  On(pairCellPositions[1]) \o On(pairCellPositions[2])

\* One part (0 block, 1 row, 2 column) of technique_hiddenPair.
technique_hiddenPair(grid, part, row, column) ==
    LET rg == GroupRange(part, row, column)
        found == technique_hiddenPair_findPair(grid, rg[1], rg[2], rg[3], rg[4],
                                               <<row, column>>)
    IN  IF /\ cell_candidate_count(grid_cellAt(grid, row, column)) >= 2
           /\ found.found
        THEN technique_hiddenPair_removePairCells(found.positions, found.candidates)
        ELSE <<>>

(***************************************************************************)
(* technique_x_wing.                                                       *)
(***************************************************************************)
\* The index pairs (a, b) with a < b in the order of the two nested loops.
RECURSIVE AxisPairsFrom(_, _)
AxisPairsFrom(a, b) ==
    IF a >= grid_size - 1 THEN <<>>
    ELSE IF b > grid_size - 1 THEN AxisPairsFrom(a + 1, a + 2)
    ELSE <<<<a, b>>>> \o AxisPairsFrom(a, b + 1)

AxisPairs == AxisPairsFrom(0, 1)

\* The iterations of the vertical pass, then those of the horizontal pass:
\* (vertical?, first line, second line, candidate).
XWingIterations ==
    LET n == Len(AxisPairs) * grid_size
        It(vertical) == [k \in 1 .. n |->
            [vertical |-> vertical,
             a |-> AxisPairs[((k - 1) \div grid_size) + 1][1],
             b |-> AxisPairs[((k - 1) \div grid_size) + 1][2],
             candidate |-> ((k - 1) % grid_size) + 1]]
    IN  It(TRUE) \o It(FALSE)

\* The cell of line `line` at offset i: lines are columns in the vertical
\* pass and rows in the horizontal pass.
XWingCell(it, line, i) == IF it.vertical THEN <<i, line>> ELSE <<line, i>>

\* technique_x_wing without the test of the two candidateCounts.
technique_x_wing_bothOnly(grid, it) ==
    LET hasA(i) == cell_hasCandidate(grid_cellAtPos(grid, XWingCell(it, it.a, i)), it.candidate)
        hasB(i) == cell_hasCandidate(grid_cellAtPos(grid, XWingCell(it, it.b, i)), it.candidate)
        both == {i \in Axis : hasA(i) /\ hasB(i)}
        candidateInBothCount == Cardinality(both)
        count0 == Cardinality({i \in Axis : hasA(i)})
        count1 == Cardinality({i \in Axis : hasB(i)})
        first == Min(both)
        second == Min(both \ {first})
        Calls(j) == IF j = it.a \/ j = it.b THEN <<>>
                    ELSE IF it.vertical
                    THEN <<RemoveOp(first, j, it.candidate), RemoveOp(second, j, it.candidate)>>
                    ELSE <<RemoveOp(j, first, it.candidate), RemoveOp(j, second, it.candidate)>>
        AllCalls[j \in 0 .. grid_size] ==
            IF j = grid_size THEN <<>> ELSE Calls(j) \o AllCalls[j + 1]
    IN  IF candidateInBothCount = 2
        THEN AllCalls[0]
        ELSE <<>>

\* The calls of one iteration of technique_x_wing.
technique_x_wing(grid, it) ==
    LET hasA(i) == cell_hasCandidate(grid_cellAtPos(grid, XWingCell(it, it.a, i)), it.candidate)
        hasB(i) == cell_hasCandidate(grid_cellAtPos(grid, XWingCell(it, it.b, i)), it.candidate)
        both == {i \in Axis : hasA(i) /\ hasB(i)}
        candidateInBothCount == Cardinality(both)
        count0 == Cardinality({i \in Axis : hasA(i)})
        count1 == Cardinality({i \in Axis : hasB(i)})
        first == Min(both)
        second == Min(both \ {first})
        Calls(j) == IF j = it.a \/ j = it.b THEN <<>>
                    ELSE IF it.vertical
                    THEN <<RemoveOp(first, j, it.candidate), RemoveOp(second, j, it.candidate)>>
                    ELSE <<RemoveOp(j, first, it.candidate), RemoveOp(j, second, it.candidate)>>
        AllCalls[j \in 0 .. grid_size] ==
            IF j = grid_size THEN <<>> ELSE Calls(j) \o AllCalls[j + 1]
    IN  IF candidateInBothCount = 2 /\ count0 = 2 /\ count1 = 2
        THEN AllCalls[0]
        ELSE <<>>

(***************************************************************************)
(* technique_backtracking_swap_cells.                                      *)
(***************************************************************************)
\* iMin with the minimum replaced also by an equal count (`<=` for `<`):
\* the last index with the fewest possible values.
swap_cells_iMin_last(grid, emptyCellPositions, emptyCellCount, iHere) ==
    LET cnt(i) == grid_cellPossibleValuesCount(grid, emptyCellPositions[i + 1][1],
                                               emptyCellPositions[i + 1][2])
        idx == iHere .. (emptyCellCount - 1)
        least == {i \in idx : \A j \in idx : cnt(i) <= cnt(j)}
    IN  CHOOSE i \in least : \A j \in least : j <= i

\* iMin: the first index from iHere on whose cell has the fewest possible
\* values (the scan replaces the minimum only by a strictly smaller count).
swap_cells_iMin(grid, emptyCellPositions, emptyCellCount, iHere) ==
    LET cnt(i) == grid_cellPossibleValuesCount(grid, emptyCellPositions[i + 1][1],
                                               emptyCellPositions[i + 1][2])
        idx == iHere .. (emptyCellCount - 1)
    IN  Min({i \in idx : \A j \in idx : cnt(i) <= cnt(j)})

\* technique_backtracking_swap_cells that copies the minimum cell to iHere
\* without storing the cell of iHere at iMin.
technique_backtracking_swap_cells_overwrite(grid, emptyCellPositions, emptyCellCount, iHere) ==
    LET iMin == swap_cells_iMin(grid, emptyCellPositions, emptyCellCount, iHere)
    IN  [emptyCellPositions EXCEPT ![iHere + 1] = emptyCellPositions[iMin + 1]]

technique_backtracking_swap_cells(grid, emptyCellPositions, emptyCellCount, iHere) ==
    LET iMin == swap_cells_iMin(grid, emptyCellPositions, emptyCellCount, iHere)
    IN  [emptyCellPositions EXCEPT ![iHere + 1] = emptyCellPositions[iMin + 1],
                                   ![iMin + 1] = emptyCellPositions[iHere + 1]]

(***************************************************************************)
(* The input files.                                                        *)
(***************************************************************************)
\* The cells an input file may fill, in the order in which MaxGivens admits
\* them; every other cell of the file is 0.
GivenCells == <<<<0, 2>>, <<1, 1>>, <<2, 2>>, <<2, 3>>, <<0, 0>>, <<3, 1>>>>

GivenCount == IF MaxGivens <= Len(GivenCells) THEN MaxGivens ELSE Len(GivenCells)

\* The 32-bit values of a file: 0 (empty), 1 .. grid_size, and
\* grid_size + 1 standing for every value above grid_size.
FileValues == 0 .. (grid_size + 1)

Inputs ==
    {[pos \in Positions |->
         IF \E k \in 1 .. GivenCount : GivenCells[k] = pos
         THEN f[CHOOSE k \in 1 .. GivenCount : GivenCells[k] = pos]
         ELSE 0] : f \in [1 .. GivenCount -> FileValues]}

\* Files with givens on other cells than GivenCells, by rows.
PuzzleRows ==
    <<<<<<0, 2, 0, 3>>, <<0, 0, 0, 0>>, <<0, 0, 0, 0>>, <<0, 0, 4, 0>>>>,
      <<<<0, 2, 0, 3>>, <<0, 0, 0, 0>>, <<0, 0, 0, 0>>, <<0, 3, 0, 4>>>>,
      <<<<1, 0, 1, 0>>, <<0, 0, 0, 0>>, <<1, 3, 0, 0>>, <<0, 1, 0, 0>>>>>>

PuzzleFiles ==
    {[pos \in Positions |-> PuzzleRows[k][pos[1] + 1][pos[2] + 1]] :
        k \in 1 .. Len(PuzzleRows)}

(***************************************************************************)
(* State.                                                                  *)
(***************************************************************************)
VARIABLES
    input,              \* gridValues: the content of the input file
    grid,               \* the tGrid
    build,              \* "any" until a failed assertion was passed, then "NDEBUG"
    phase,              \* where the program is: "load", "simple", "x_wing",
                        \* "until", "backtracking", "done", "invalid_data", "aborted"
    cellIdx,            \* perform_simpleTechniques: row-major index of (r, c)
    tech,               \* perform_simpleTechniques: the technique to call next
    part,               \* the part of the running technique to scan next
    queue,              \* calls the running technique has still to make
    techProgress,       \* `progress` of the running technique
    passProgress,       \* `progress` of perform_simpleTechniques
    progress,           \* `progress` of the facade loop
    emptyCellPositions, \* the list given to technique_backtracking
    stack,              \* frames of technique_backtracking: pos and value, and
                        \* the grid the call was entered with
    btState,            \* "call", "loop", "true", "false": what the top frame does next
    result,             \* "none", "success", "failure"
    passEntry,          \* the grid at the entry of the last first call of
                        \* perform_simpleTechniques
    secondCall,         \* perform_simpleTechniques is being called a second
                        \* time in a row
    scanned,            \* the grid the running technique decided its calls on
    xwEntry,            \* the grid at the entry of the last call of technique_x_wing
    called              \* the grid at the entry of the running call of a technique

vars == <<input, grid, build, phase, cellIdx, tech, part, queue, techProgress,
          passProgress, progress, emptyCellPositions, stack, btState, result,
          passEntry, secondCall, scanned, xwEntry, called>>

ctrlVars == <<cellIdx, tech, part, passProgress, progress>>

btVars == <<emptyCellPositions, stack, btState, result>>

Init ==
    /\ input \in Inputs \cup PuzzleFiles
    /\ grid = grid_create
    /\ build = "any"
    /\ phase = "load"
    /\ cellIdx = 0
    /\ tech = 1
    /\ part = 0
    /\ queue = <<>>
    /\ techProgress = FALSE
    /\ passProgress = FALSE
    /\ progress = FALSE
    /\ emptyCellPositions = <<>>
    /\ stack = <<>>
    /\ btState = "call"
    /\ result = "none"
    /\ passEntry = grid_create
    /\ xwEntry = grid_create
    /\ called = grid_create
    /\ secondCall = FALSE
    /\ scanned = grid_create

(***************************************************************************)
(* grid_load, then the first call of perform_simpleTechniques.             *)
(***************************************************************************)
Load ==
    /\ phase = "load"
    /\ LET loaded == grid_load(input)
       IN  /\ grid' = loaded.grid
           /\ passEntry' = loaded.grid
           /\ phase' = IF loaded.ok THEN "simple" ELSE "invalid_data"
    /\ UNCHANGED <<input, build, cellIdx, tech, part, queue, techProgress,
                   passProgress, progress, emptyCellPositions, stack, btState, result,
                   secondCall, scanned, xwEntry, called>>

(***************************************************************************)
(* Primitive calls of the running technique.                               *)
(***************************************************************************)
Propagating == phase \in {"simple", "x_wing"}

Step_removeCandidate ==
    /\ Propagating
    /\ queue # <<>>
    /\ Head(queue).op = "removeCandidate"
    /\ LET call == Head(queue)
           done == grid_cell_removeCandidate(grid, call.row, call.column, call.candidate)
       IN  /\ grid' = done.grid
           /\ techProgress' = (techProgress \/ (call.accumulate /\ done.ret))
    /\ queue' = Tail(queue)
    /\ UNCHANGED <<input, build, phase, ctrlVars, btVars,
                   passEntry, secondCall, scanned, xwEntry, called>>

Step_provideValue ==
    /\ Propagating
    /\ queue # <<>>
    /\ Head(queue).op = "provideValue"
    /\ LET call == Head(queue)
           holds == grid_cell_provideValue_asserts(grid, call.row, call.column, call.candidate)
       IN  \/ /\ ~(~holds /\ build = "any")
              /\ grid' = grid_cell_provideValue(grid, call.row, call.column, call.candidate)
              /\ queue' = Tail(queue)
              /\ UNCHANGED <<build, phase>>
           \/ \* a build without NDEBUG: the assertion aborts the program
              /\ ~holds /\ build = "any"
              /\ phase' = "aborted"
              /\ UNCHANGED <<grid, queue, build>>
           \/ \* a build with NDEBUG: the assertion is not compiled
              /\ ~holds /\ build = "any"
              /\ build' = "NDEBUG"
              /\ grid' = grid_cell_provideValue(grid, call.row, call.column, call.candidate)
              /\ queue' = Tail(queue)
              /\ UNCHANGED phase
    /\ UNCHANGED <<input, ctrlVars, techProgress, btVars,
                   passEntry, secondCall, scanned, xwEntry, called>>

Step_progress ==
    /\ Propagating
    /\ queue # <<>>
    /\ Head(queue).op = "progress"
    /\ techProgress' = TRUE
    /\ queue' = Tail(queue)
    /\ UNCHANGED <<input, grid, build, phase, ctrlVars, btVars,
                   passEntry, secondCall, scanned, xwEntry, called>>

\* One iteration of the elimination loop of technique_nakedPair:
\* isNotPairCell is read once, then guards the two removals.
Step_nakedPairCell ==
    /\ Propagating
    /\ queue # <<>>
    /\ Head(queue).op = "nakedPairCell"
    /\ LET call == Head(queue)
           isNotPairCell == ~technique_nakedPair_isPairCell(
                                grid_cellAt(grid, call.row, call.column), call.pair)
       IN  queue' = (IF isNotPairCell
                     THEN <<RemoveOp(call.row, call.column, call.pair[1]),
                            RemoveOp(call.row, call.column, call.pair[2])>>
                     ELSE <<>>) \o Tail(queue)
    /\ UNCHANGED <<input, grid, build, phase, ctrlVars, techProgress, btVars,
                   passEntry, secondCall, scanned, xwEntry, called>>

(***************************************************************************)
(* perform_simpleTechniques.                                               *)
(***************************************************************************)
NakedSingletonCalls(q, pos) ==
    IF q = 0 THEN technique_nakedSingleton(grid, pos[1], pos[2]) ELSE <<>>

HiddenSingletonCalls(q, pos) == technique_hiddenSingleton(grid, q, pos[1], pos[2])

NakedPairCalls(q, pos) ==
    IF q = 0 THEN technique_nakedPair(grid, pos[1], pos[2]) ELSE <<>>

HiddenPairCalls(q, pos) == technique_hiddenPair(grid, q, pos[1], pos[2])

\* The calls part q of technique t decides on, in the order of the pass.
TechniqueCalls(t, q, pos) ==
    CASE t = 1 -> NakedSingletonCalls(q, pos)
      [] t = 2 -> HiddenSingletonCalls(q, pos)
      [] t = 3 -> NakedPairCalls(q, pos)
      [] t = 4 -> HiddenPairCalls(q, pos)

\* The parts of technique t from `from` on whose scan decides on a call.
FiringParts(t, from) ==
    {q \in from .. 2 : TechniqueCalls(t, q, PosOf(cellIdx)) # <<>>}

\* A technique on the cell (r, c) of the pass: it scans its parts in order;
\* a part that finds something queues its calls, and after the last part the
\* technique returns its progress flag to `progress |= ...`.
RunTechnique(t) ==
    /\ phase = "simple"
    /\ queue = <<>>
    /\ cellIdx < CellCount
    /\ tech = t
    /\ ~(part = 0 /\ cell_hasValue(grid_cellAtPos(grid, PosOf(cellIdx))))
    /\ LET firing == FiringParts(t, part)
       IN  IF firing # {}
           THEN /\ queue' = TechniqueCalls(t, Min(firing), PosOf(cellIdx))
                /\ part' = Min(firing) + 1
                /\ scanned' = grid
                /\ called' = IF part = 0 THEN grid ELSE called
                /\ UNCHANGED <<cellIdx, tech, passProgress, techProgress>>
           ELSE /\ passProgress' = (passProgress \/ techProgress)
                /\ techProgress' = FALSE
                /\ part' = 0
                /\ IF t = 4
                   THEN cellIdx' = cellIdx + 1 /\ tech' = 1
                   ELSE tech' = t + 1 /\ UNCHANGED cellIdx
                /\ UNCHANGED <<queue, scanned, called>>
    /\ UNCHANGED <<input, grid, build, phase, progress, btVars, passEntry, secondCall,
                   xwEntry>>

NakedSingleton == RunTechnique(1)

HiddenSingleton == RunTechnique(2)

NakedPair == RunTechnique(3)

HiddenPair == RunTechnique(4)

\* `if (cell_hasValue(*cell)) continue;` at the top of the loop body and
\* after each of the first three techniques.
Continue ==
    /\ phase = "simple"
    /\ queue = <<>>
    /\ cellIdx < CellCount
    /\ part = 0
    /\ cell_hasValue(grid_cellAtPos(grid, PosOf(cellIdx)))
    /\ cellIdx' = cellIdx + 1
    /\ tech' = 1
    /\ UNCHANGED <<input, grid, build, phase, part, queue, techProgress,
                   passProgress, progress, btVars,
                   passEntry, secondCall, scanned, xwEntry, called>>

\* perform_simpleTechniques returns; the facade calls technique_x_wing.
PassReturn ==
    /\ phase = "simple"
    /\ queue = <<>>
    /\ cellIdx = CellCount
    /\ progress' = passProgress
    /\ phase' = "x_wing"
    /\ part' = 1
    /\ secondCall' = FALSE
    /\ xwEntry' = grid
    /\ UNCHANGED <<input, grid, build, cellIdx, tech, queue, techProgress,
                   passProgress, btVars, passEntry, scanned, called>>

(***************************************************************************)
(* technique_x_wing.                                                       *)
(***************************************************************************)
XWing ==
    /\ phase = "x_wing"
    /\ queue = <<>>
    /\ LET firing == {q \in part .. Len(XWingIterations) :
                         technique_x_wing(grid, XWingIterations[q]) # <<>>}
       IN  IF firing # {}
           THEN /\ queue' = technique_x_wing(grid, XWingIterations[Min(firing)])
                /\ part' = Min(firing) + 1
                /\ scanned' = grid
                /\ UNCHANGED <<phase, progress, techProgress>>
           ELSE /\ progress' = (progress \/ techProgress)
                /\ techProgress' = FALSE
                /\ phase' = "until"
                /\ part' = 0
                /\ UNCHANGED <<queue, scanned>>
    /\ UNCHANGED <<input, grid, build, cellIdx, tech, passProgress, btVars,
                   passEntry, secondCall, xwEntry, called>>

(***************************************************************************)
(* The solver facade: the loop test, the list of empty cells and the call  *)
(* of technique_backtracking.                                              *)
(***************************************************************************)
\* The positions of the cells without a value, in row-major order.
RECURSIVE EmptyCellsFrom(_, _)
EmptyCellsFrom(g, k) ==
    IF k = CellCount THEN <<>>
    ELSE (IF cell_hasValue(grid_cellAtPos(g, PosOf(k))) THEN <<>> ELSE <<PosOf(k)>>)
         \o EmptyCellsFrom(g, k + 1)

Until ==
    /\ phase = "until"
    /\ IF progress
       THEN /\ phase' = "simple"
            /\ cellIdx' = 0
            /\ tech' = 1
            /\ passProgress' = FALSE
            /\ passEntry' = grid
            /\ UNCHANGED btVars
       ELSE LET E == EmptyCellsFrom(grid, 0)
            IN  /\ emptyCellPositions' = E
                /\ stack' = <<>>
                /\ btState' = "call"
                /\ IF E = <<>>
                   THEN phase' = "done" /\ result' = "success"
                   ELSE phase' = "backtracking" /\ UNCHANGED result
                /\ UNCHANGED <<cellIdx, tech, passProgress, passEntry>>
    /\ UNCHANGED <<input, grid, build, part, queue, techProgress, progress,
                   secondCall, scanned, xwEntry, called>>

(***************************************************************************)
(* technique_backtracking.  The frame of the call with iCellPosition = i   *)
(* is stack[i + 1]; it holds pos and the loop variable value.              *)
(***************************************************************************)
emptyCellCount == Len(emptyCellPositions)

\* Entry of technique_backtracking with a loop that starts at value 2.
Backtracking_call_fromTwo ==
    /\ phase = "backtracking"
    /\ btState = "call"
    /\ LET iCellPosition == Len(stack)
       IN  IF iCellPosition = emptyCellCount
           THEN /\ btState' = "true"
                /\ UNCHANGED <<emptyCellPositions, stack>>
           ELSE LET swapped == technique_backtracking_swap_cells(
                                   grid, emptyCellPositions, emptyCellCount, iCellPosition)
                IN  /\ emptyCellPositions' = swapped
                    /\ stack' = Append(stack, [pos |-> swapped[iCellPosition + 1],
                                                value |-> 2, entry |-> grid])
                    /\ btState' = "loop"
    /\ UNCHANGED <<input, grid, build, phase, ctrlVars, queue, techProgress, result,
                   passEntry, secondCall, scanned, xwEntry, called>>

\* Entry of technique_backtracking(grid, E, count, Len(stack)).
Backtracking_call ==
    /\ phase = "backtracking"
    /\ btState = "call"
    /\ LET iCellPosition == Len(stack)
       IN  IF iCellPosition = emptyCellCount
           THEN /\ btState' = "true"
                /\ UNCHANGED <<emptyCellPositions, stack>>
           ELSE LET swapped == technique_backtracking_swap_cells(
                                   grid, emptyCellPositions, emptyCellCount, iCellPosition)
                IN  /\ emptyCellPositions' = swapped
                    /\ stack' = Append(stack, [pos |-> swapped[iCellPosition + 1],
                                                value |-> 1, entry |-> grid])
                    /\ btState' = "loop"
    /\ UNCHANGED <<input, grid, build, phase, ctrlVars, queue, techProgress, result,
                   passEntry, secondCall, scanned, xwEntry, called>>

\* The for loop run downwards: it commits the largest possible value.
Backtracking_loop_descending ==
    /\ phase = "backtracking"
    /\ btState = "loop"
    /\ LET frame == stack[Len(stack)]
           possible == {value \in frame.value .. grid_size :
                           grid_possible(grid, frame.pos[1], frame.pos[2], value)}
           largest == CHOOSE x \in possible : \A y \in possible : y <= x
       IN  IF possible # {}
           THEN /\ grid' = grid_markValueFree(FALSE, grid, frame.pos[1], frame.pos[2],
                                              largest)
                /\ stack' = [stack EXCEPT ![Len(stack)].value = largest]
                /\ btState' = "call"
           ELSE /\ stack' = SubSeq(stack, 1, Len(stack) - 1)
                /\ btState' = "false"
                /\ UNCHANGED grid
    /\ UNCHANGED <<input, build, phase, ctrlVars, queue, techProgress,
                   emptyCellPositions, result,
                   passEntry, secondCall, scanned, xwEntry, called>>

\* The for loop of the top frame, from its current value on: it runs to the
\* first possible value, commits it tentatively and makes the recursive
\* call; with no possible value left the call returns false.
Backtracking_loop ==
    /\ phase = "backtracking"
    /\ btState = "loop"
    /\ LET frame == stack[Len(stack)]
           possible == {value \in frame.value .. grid_size :
                           grid_possible(grid, frame.pos[1], frame.pos[2], value)}
       IN  IF possible # {}
           THEN /\ grid' = grid_markValueFree(FALSE, grid, frame.pos[1], frame.pos[2],
                                              Min(possible))
                /\ stack' = [stack EXCEPT ![Len(stack)].value = Min(possible)]
                /\ btState' = "call"
           ELSE /\ stack' = SubSeq(stack, 1, Len(stack) - 1)
                /\ btState' = "false"
                /\ UNCHANGED grid
    /\ UNCHANGED <<input, build, phase, ctrlVars, queue, techProgress,
                   emptyCellPositions, result,
                   passEntry, secondCall, scanned, xwEntry, called>>

\* The return on true with the value written at the transposed position.
Backtracking_true_transposed ==
    /\ phase = "backtracking"
    /\ btState = "true"
    /\ IF stack # <<>>
       THEN /\ grid' = [grid EXCEPT !.cells[<<stack[Len(stack)].pos[2],
                                              stack[Len(stack)].pos[1]>>].value =
                                        stack[Len(stack)].value]
            /\ stack' = SubSeq(stack, 1, Len(stack) - 1)
            /\ UNCHANGED <<phase, result>>
       ELSE /\ phase' = "done"
            /\ result' = "success"
            /\ UNCHANGED <<grid, stack>>
    /\ UNCHANGED <<input, build, ctrlVars, queue, techProgress,
                   emptyCellPositions, btState,
                   passEntry, secondCall, scanned, xwEntry, called>>

\* The recursive call returned true: the top frame writes its value and
\* returns true; below the bottom frame the facade reports success.
Backtracking_true ==
    /\ phase = "backtracking"
    /\ btState = "true"
    /\ IF stack # <<>>
       THEN /\ grid' = [grid EXCEPT !.cells[stack[Len(stack)].pos].value =
                                        stack[Len(stack)].value]
            /\ stack' = SubSeq(stack, 1, Len(stack) - 1)
            /\ UNCHANGED <<phase, result>>
       ELSE /\ phase' = "done"
            /\ result' = "success"
            /\ UNCHANGED <<grid, stack>>
    /\ UNCHANGED <<input, build, ctrlVars, queue, techProgress,
                   emptyCellPositions, btState,
                   passEntry, secondCall, scanned, xwEntry, called>>

\* The return on false without the undo of the tentative commit.
Backtracking_false_noUndo ==
    /\ phase = "backtracking"
    /\ btState = "false"
    /\ IF stack # <<>>
       THEN /\ stack' = [stack EXCEPT ![Len(stack)].value = @ + 1]
            /\ btState' = "loop"
            /\ UNCHANGED <<grid, phase, result>>
       ELSE /\ phase' = "done"
            /\ result' = "failure"
            /\ UNCHANGED <<grid, stack, btState>>
    /\ UNCHANGED <<input, build, ctrlVars, queue, techProgress, emptyCellPositions,
                   passEntry, secondCall, scanned, xwEntry, called>>

\* The recursive call returned false: the top frame undoes its tentative
\* commit and goes on with the next value; below the bottom frame the
\* facade reports failure.
Backtracking_false ==
    /\ phase = "backtracking"
    /\ btState = "false"
    /\ IF stack # <<>>
       THEN /\ grid' = grid_markValueFree(TRUE, grid, stack[Len(stack)].pos[1],
                                          stack[Len(stack)].pos[2], stack[Len(stack)].value)
            /\ stack' = [stack EXCEPT ![Len(stack)].value = @ + 1]
            /\ btState' = "loop"
            /\ UNCHANGED <<phase, result>>
       ELSE /\ phase' = "done"
            /\ result' = "failure"
            /\ UNCHANGED <<grid, stack, btState>>
    /\ UNCHANGED <<input, build, ctrlVars, queue, techProgress, emptyCellPositions,
                   passEntry, secondCall, scanned, xwEntry, called>>

Next ==
    \/ Load
    \/ Step_removeCandidate
    \/ Step_provideValue
    \/ Step_progress
    \/ Step_nakedPairCell
    \/ NakedSingleton
    \/ HiddenSingleton
    \/ NakedPair
    \/ HiddenPair
    \/ Continue
    \/ PassReturn
    \/ XWing
    \/ Until
    \/ Backtracking_call
    \/ Backtracking_loop
    \/ Backtracking_true
    \/ Backtracking_false

Spec == Init /\ [][Next]_vars

(***************************************************************************)
(* perform_simpleTechniques called twice in a row: a caller that, when the *)
(* call has returned false, calls it once more on the same grid before it  *)
(* goes on as the facade does.                                             *)
(***************************************************************************)
SecondCall ==
    /\ phase = "simple"
    /\ queue = <<>>
    /\ cellIdx = CellCount
    /\ ~passProgress
    /\ ~secondCall
    /\ secondCall' = TRUE
    /\ cellIdx' = 0
    /\ tech' = 1
    /\ UNCHANGED <<input, grid, build, phase, part, queue, techProgress,
                   passProgress, progress, btVars, passEntry, scanned, xwEntry, called>>

\* The return of a call that has no second call to follow.
LastPassReturn == (passProgress \/ secondCall) /\ PassReturn

NextTwice ==
    \/ Load
    \/ Step_removeCandidate
    \/ Step_provideValue
    \/ Step_progress
    \/ Step_nakedPairCell
    \/ NakedSingleton
    \/ HiddenSingleton
    \/ NakedPair
    \/ HiddenPair
    \/ Continue
    \/ SecondCall
    \/ LastPassReturn
    \/ XWing
    \/ Until
    \/ Backtracking_call
    \/ Backtracking_loop
    \/ Backtracking_true
    \/ Backtracking_false

SpecTwice == Init /\ [][NextTwice]_vars

(***************************************************************************)
(* Vocabulary of the properties.                                           *)
(***************************************************************************)
Value(pos) == grid.cells[pos].value

Candidates(g, pos) == {v \in Values : g.cells[pos].hasCandidate[v]}

PossibleValues(g, pos) == {v \in Values : grid_possible(g, pos[1], pos[2], v)}

BlockOf(pos) == <<pos[1] \div N, pos[2] \div N>>

RowGroup(r) == {pos \in Positions : pos[1] = r}

ColumnGroup(c) == {pos \in Positions : pos[2] = c}

BlockGroup(b) == {pos \in Positions : BlockOf(pos) = b}

Groups ==
    {RowGroup(r) : r \in Axis} \cup {ColumnGroup(c) : c \in Axis}
        \cup {BlockGroup(b) : b \in BlockAxis \X BlockAxis}

\* No value occurs twice in a row, a column or a block of the file.
NoDuplicate(gridValues) ==
    \A group \in Groups : \A p, q \in group :
        (p # q /\ gridValues[p] # 0) => gridValues[p] # gridValues[q]

RowDuplicate(gridValues) ==
    \E r \in Axis : \E p, q \in RowGroup(r) :
        p # q /\ gridValues[p] # 0 /\ gridValues[p] = gridValues[q]

\* Every value of the file is one the loader accepts.
LoaderAccepts(gridValues) == \A pos \in Positions : gridValues[pos] <= grid_size

\* The rows that are permutations of 1 .. grid_size.
RowPermutations ==
    {row \in [Axis -> Values] : \A a, b \in Axis : a # b => row[a] # row[b]}

\* The stacks of k rows in which no column and no block repeats a value.
RECURSIVE LegalRows(_)
LegalRows(k) ==
    IF k = 0 THEN {<<>>}
    ELSE {Append(above, row) : <<above, row>> \in
             {pr \in LegalRows(k - 1) \X RowPermutations :
                 \A r \in 1 .. (k - 1) : \A c, d \in Axis :
                     pr[1][r][c] = pr[2][d] =>
                         /\ c # d
                         /\ ~((r - 1) \div N = (k - 1) \div N /\ c \div N = d \div N)}}

\* The completely filled legal grids.
Solutions ==
    {[pos \in Positions |-> rows[pos[1] + 1][pos[2]]] : rows \in LegalRows(grid_size)}

\* The file is a puzzle without duplicate that has at least one completion.
ValidPuzzle(gridValues) ==
    /\ LoaderAccepts(gridValues)
    /\ NoDuplicate(gridValues)
    /\ \E s \in Solutions : \A pos \in Positions :
           gridValues[pos] # 0 => s[pos] = gridValues[pos]

\* Every row, column and block of the grid is a permutation of 1 .. grid_size.
Legal == \A group \in Groups : {Value(pos) : pos \in group} = Values

\* The availability tables agree with the cell values, counting the values
\* of `pending` (position, value) pairs as present.
TablesAgreeWith(pending) ==
    LET Present(group, v) ==
            \/ \E pos \in group : Value(pos) = v
            \/ \E pv \in pending : pv[1] \in group /\ pv[2] = v
    IN  \A v \in Values :
            /\ \A r \in Axis : grid.isRowFree[r][v] <=> ~Present(RowGroup(r), v)
            /\ \A c \in Axis : grid.isColumnFree[c][v] <=> ~Present(ColumnGroup(c), v)
            /\ \A b \in BlockAxis \X BlockAxis :
                   grid.isBlockFree[b][v] <=> ~Present(BlockGroup(b), v)

TablesAgree == TablesAgreeWith({})

\* The program is between grid_load and the call of technique_backtracking.
BeforeBacktracking == phase \in {"simple", "x_wing", "until"}

\* Entry or exit of a propagation technique: no call of the running
\* technique is pending and no part of it is left to scan.
TechniqueBoundary ==
    \/ phase = "simple" /\ queue = <<>> /\ part = 0
    \/ phase = "x_wing" /\ queue = <<>> /\ part = 1
    \/ phase = "until"

\* Entry or exit of perform_simpleTechniques.
PassBoundary ==
    \/ phase = "simple" /\ queue = <<>> /\ part = 0 /\ tech = 1
           /\ cellIdx \in {0, CellCount}
    \/ phase = "x_wing" /\ queue = <<>> /\ part = 1

CandidatesExact(g) ==
    \A pos \in Positions :
        g.cells[pos].value = 0 => Candidates(g, pos) = PossibleValues(g, pos)

Range(seq) == {seq[k] : k \in 1 .. Len(seq)}

GivenPositions == {pos \in Positions : input[pos] # 0}

(***************************************************************************)
(* C1.  Completeness: for every input without duplicate that has a valid   *)
(* completion, the solver does not stop on an error and, once it has       *)
(* returned, it reports success and every cell holds a value of            *)
(* 1 .. grid_size.                                                         *)
(***************************************************************************)
C1_Completeness ==
    (phase # "load" /\ ValidPuzzle(input)) =>
        /\ phase \notin {"invalid_data", "aborted"}
        /\ phase = "done" =>
               /\ result = "success"
               /\ \A pos \in Positions : Value(pos) \in Values

\* A valid puzzle with givens, solved by propagation followed by
\* backtracking on the cells propagation left empty.
C1_Witness ==
    /\ phase = "done"
    /\ ValidPuzzle(input)
    /\ GivenPositions # {}
    /\ emptyCellPositions # <<>>
    /\ Len(emptyCellPositions) + Cardinality(GivenPositions) < CellCount
    /\ result = "success"

(***************************************************************************)
(* C2.  Sudoku legality: whenever the solver reports success, every row,   *)
(* column and block of the grid is a permutation of 1 .. grid_size.        *)
(***************************************************************************)
C2_Legality == (phase = "done" /\ result = "success") => Legal

(***************************************************************************)
(* C3.  Initial-value preservation: after the load every non-zero cell of  *)
(* the input holds its input value, and no step ever changes a cell value  *)
(* that is already non-zero.                                               *)
(***************************************************************************)
C3_ValuePreservation ==
    /\ [](phase \notin {"load", "invalid_data"} =>
              \A pos \in GivenPositions : Value(pos) = input[pos])
    /\ [][phase # "load" =>
              \A pos \in Positions :
                  Value(pos) # 0 => grid'.cells[pos].value = Value(pos)]_vars

\* A run with givens in which propagation committed values and
\* backtracking wrote the others.
C3_Witness ==
    /\ phase = "done"
    /\ result = "success"
    /\ GivenPositions # {}
    /\ emptyCellPositions # <<>>
    /\ Len(emptyCellPositions) + Cardinality(GivenPositions) < CellCount
    /\ \A pos \in GivenPositions : Value(pos) = input[pos]

(***************************************************************************)
(* C4.  Unsolvable input is reported: for an input with two identical      *)
(* values in one row the loader succeeds and the solver, once it has       *)
(* returned, reports failure.                                              *)
(***************************************************************************)
C4_RowDuplicateReported ==
    (phase # "load" /\ LoaderAccepts(input) /\ RowDuplicate(input)) =>
        /\ phase # "invalid_data"
        /\ phase = "done" => result = "failure"

(***************************************************************************)
(* C5.  Synchronized availability tables before backtracking: in every     *)
(* state between grid_load and the call of technique_backtracking, a value *)
(* is marked free in a row, column or block exactly when no cell of that   *)
(* group holds it.                                                         *)
(***************************************************************************)
C5_TablesSynchronized == BeforeBacktracking => TablesAgree

\* The propagation has committed a value in a cell the input left empty.
C5_Witness ==
    /\ phase = "until"
    /\ \E pos \in Positions : input[pos] = 0 /\ Value(pos) # 0

(***************************************************************************)
(* C6.  Cell invariant before backtracking: candidateCount is the number   *)
(* of candidates of the cell, and a cell with a value has no candidate and *)
(* a count of 0.                                                           *)
(***************************************************************************)
C6_CellInvariant ==
    BeforeBacktracking =>
        \A pos \in Positions :
            /\ grid.cells[pos].candidateCount = Cardinality(Candidates(grid, pos))
            /\ ~grid.cells[pos].hasCandidate[0]
            /\ Value(pos) # 0 =>
                   Candidates(grid, pos) = {} /\ grid.cells[pos].candidateCount = 0

\* A removal has just left a cell with fewer candidates than possible
\* values, and another cell has been committed by the propagation.
C6_Witness ==
    /\ BeforeBacktracking
    /\ \E pos \in Positions :
           /\ Value(pos) = 0
           /\ Candidates(grid, pos) # {}
           /\ Candidates(grid, pos) # PossibleValues(grid, pos)
    /\ \E pos \in Positions : input[pos] = 0 /\ Value(pos) # 0

(***************************************************************************)
(* C7.  Candidate soundness before backtracking: at the entry and exit of  *)
(* every propagation technique, every candidate of an empty cell is a      *)
(* value grid_possible accepts for that cell.                              *)
(***************************************************************************)
C7_CandidateSoundness ==
    TechniqueBoundary =>
        \A pos \in Positions :
            Value(pos) = 0 => Candidates(grid, pos) \subseteq PossibleValues(grid, pos)

(***************************************************************************)
(* C8.  At every entry to and exit from perform_simpleTechniques the       *)
(* candidate set of each empty cell is exactly the set of values free in   *)
(* its row, its column and its block.                                      *)
(***************************************************************************)
C8_CandidatesExact == PassBoundary => CandidatesExact(grid)

\* C8 as amended: the equality holds in the state grid_load leaves, which
\* is the first entry to perform_simpleTechniques; from then on to the call
\* of technique_backtracking no step adds a candidate to a cell, so that at
\* every later entry and exit the candidate set of a cell is a subset of
\* the one it had at the first entry.
C8_CandidatesExactAtFirstEntry ==
    [][/\ (phase = "load" /\ phase' = "simple") => CandidatesExact(grid')
       /\ BeforeBacktracking =>
              \A pos \in Positions : Candidates(grid', pos) \subseteq Candidates(grid, pos)]_vars

\* An exit of perform_simpleTechniques at which an empty cell has lost a
\* candidate that is still free in its row, column and block.
C8_Witness ==
    /\ phase = "x_wing" /\ queue = <<>> /\ part = 1
    /\ \E pos \in Positions :
           /\ Value(pos) = 0
           /\ Candidates(grid, pos) # PossibleValues(grid, pos)
           /\ Candidates(grid, pos) \subseteq PossibleValues(grid, pos)

(***************************************************************************)
(* C9.  Backtracking frame: a step of technique_backtracking changes       *)
(* neither the hasCandidate array nor the candidate count of any cell, it  *)
(* changes the value of no cell outside emptyCellPositions, and it only    *)
(* reorders emptyCellPositions.                                            *)
(***************************************************************************)
C9_BacktrackingFrame ==
    [][phase = "backtracking" =>
          /\ \A pos \in Positions :
                 /\ grid'.cells[pos].hasCandidate = grid.cells[pos].hasCandidate
                 /\ grid'.cells[pos].candidateCount = grid.cells[pos].candidateCount
                 /\ pos \notin Range(emptyCellPositions) =>
                        grid'.cells[pos].value = Value(pos)
          /\ Len(emptyCellPositions') = Len(emptyCellPositions)
          /\ Range(emptyCellPositions') = Range(emptyCellPositions)]_vars

\* technique_backtracking has returned success after reordering the list,
\* and a cell it filled still has its stale candidates.
C9_Witness ==
    /\ phase = "done"
    /\ result = "success"
    /\ emptyCellPositions # <<>>
    /\ emptyCellPositions # EmptyCellsFrom([grid EXCEPT !.cells =
           [pos \in Positions |->
               IF pos \in Range(emptyCellPositions) THEN EmptyCell ELSE @[pos]]], 0)
    /\ \E pos \in Range(emptyCellPositions) :
           Value(pos) # 0 /\ grid.cells[pos].candidateCount > 0

(***************************************************************************)
(* C10.  Propagation soundness: in every state after the load, also after  *)
(* each tentative commit and undo of technique_backtracking, the three     *)
(* availability tables agree with the cell values.                         *)
(***************************************************************************)
C10_TablesAgreeEverywhere ==
    phase \in {"simple", "x_wing", "until", "backtracking", "done"} => TablesAgree

\* The tentative commits technique_backtracking has made and neither
\* undone nor written: one per frame, but for the top frame while it is
\* still looking for a possible value.
PendingCommits ==
    {<<stack[k].pos, stack[k].value>> :
        k \in 1 .. (IF btState = "loop" THEN Len(stack) - 1 ELSE Len(stack))}

\* C10 as amended: the tables agree with the cell values after every
\* primitive call of the load and of the propagation, at every entry and
\* exit of a technique, and at the entry and the return of
\* technique_backtracking; inside technique_backtracking they agree with
\* the cell values together with the tentative commits of the active calls.
C10_TablesAgreeUpToPending ==
    /\ phase \in {"simple", "x_wing", "until", "done"} => TablesAgree
    /\ phase = "backtracking" => TablesAgreeWith(PendingCommits)

\* technique_backtracking is two calls deep after it has undone a commit.
C10_Witness ==
    /\ phase = "backtracking"
    /\ btState = "loop"
    /\ Len(stack) >= 2
    /\ stack[Len(stack)].value > 1
    /\ ~TablesAgree

(***************************************************************************)
(* C11.  Idempotence of the fixpoint: when perform_simpleTechniques        *)
(* returns false the grid (values, candidates, counts, tables) is the one  *)
(* it was called on, and a second call made right after it changes nothing *)
(* either and returns false too.                                           *)
(***************************************************************************)
C11_FixpointIdempotent ==
    /\ (phase = "simple" /\ queue = <<>> /\ cellIdx = CellCount /\ ~passProgress) =>
           grid = passEntry
    /\ secondCall =>
           /\ phase = "simple"
           /\ grid = passEntry
           /\ ~passProgress
           /\ ~techProgress

\* The second call is about to return on a grid with givens in which
\* propagation is stuck on cells that have several candidates.
C11_Witness ==
    /\ secondCall
    /\ queue = <<>>
    /\ cellIdx = CellCount
    /\ GivenPositions # {}
    /\ \E pos \in Positions : grid.cells[pos].candidateCount >= 2

(***************************************************************************)
(* C12.  MRV correctness: the call of technique_backtracking_swap_cells    *)
(* made at index i exchanges the entries i and j of emptyCellPositions and *)
(* nothing else, where j is the earliest index of [i, count) whose cell    *)
(* has the fewest values for which grid_possible is true.                  *)
(***************************************************************************)
C12_MRV ==
    [][(phase = "backtracking" /\ btState = "call"
            /\ Len(stack) < Len(emptyCellPositions)) =>
          LET i == Len(stack) + 1
              last == Len(emptyCellPositions)
              cnt(pos) == Cardinality(PossibleValues(grid, pos))
          IN  /\ Len(emptyCellPositions') = last
              /\ \E j \in i .. last :
                     /\ emptyCellPositions'[i] = emptyCellPositions[j]
                     /\ emptyCellPositions'[j] = emptyCellPositions[i]
                     /\ \A k \in (1 .. last) \ {i, j} :
                            emptyCellPositions'[k] = emptyCellPositions[k]
                     /\ \A k \in i .. last :
                            cnt(emptyCellPositions[j]) <= cnt(emptyCellPositions[k])
                     /\ \A k \in i .. (j - 1) :
                            cnt(emptyCellPositions[j]) < cnt(emptyCellPositions[k])]_vars

\* A call has just brought forward a cell that comes later in row-major
\* order than a cell it left behind, and another cell of the suffix has as
\* few possible values as the chosen one.
C12_Witness ==
    /\ phase = "backtracking"
    /\ btState = "loop"
    /\ stack # <<>>
    /\ LET i == Len(stack)
           chosen == emptyCellPositions[i]
           cnt(pos) == Cardinality(PossibleValues(grid, pos))
       IN  /\ stack[i].value = 1
           /\ \E k \in (i + 1) .. Len(emptyCellPositions) :
                  /\ emptyCellPositions[k][1] * grid_size + emptyCellPositions[k][2]
                         < chosen[1] * grid_size + chosen[2]
           /\ \E k \in (i + 1) .. Len(emptyCellPositions) :
                  cnt(emptyCellPositions[k]) = cnt(chosen)

(***************************************************************************)
(* C13.  Ascending value order in backtracking: when the call of           *)
(* technique_backtracking at index i returns true, the value it writes is  *)
(* the smallest value that was possible for its cell when the call was     *)
(* entered and with which the cells at the indices after i can all be      *)
(* filled.                                                                 *)
(***************************************************************************)
\* Some choice of values fills all of `cells`, each value free in its row,
\* column and block once the values chosen before it are marked.
RECURSIVE Fillable(_, _)
Fillable(g, cells) ==
    IF cells = {} THEN TRUE
    ELSE LET pos == CHOOSE p \in cells : TRUE
         IN  \E v \in Values :
                 /\ grid_possible(g, pos[1], pos[2], v)
                 /\ Fillable(grid_markValueFree(FALSE, g, pos[1], pos[2], v),
                             cells \ {pos})

\* The value the call at index k (from 1) has committed: tentatively while
\* its frame is on the stack, written in the cell once it has returned true.
CommittedAt(k) ==
    IF k <= Len(stack) THEN stack[k].value ELSE Value(emptyCellPositions[k])

\* The grid g with the commits of the calls at the indices k and after
\* taken back: the tables as the call at index k found them.
RECURSIVE TablesBefore(_, _)
TablesBefore(g, k) ==
    IF k > Len(emptyCellPositions) THEN g
    ELSE TablesBefore(grid_markValueFree(TRUE, g, emptyCellPositions[k][1],
                                         emptyCellPositions[k][2], CommittedAt(k)),
                      k + 1)

\* The values with which the top call could have succeeded.
SucceedingValues ==
    LET i == Len(stack)
        pos == emptyCellPositions[i]
        entered == TablesBefore(grid, i)
        after == {emptyCellPositions[k] : k \in (i + 1) .. Len(emptyCellPositions)}
    IN  {v \in Values :
            /\ grid_possible(entered, pos[1], pos[2], v)
            /\ Fillable(grid_markValueFree(FALSE, entered, pos[1], pos[2], v), after)}

C13_AscendingOrder ==
    (phase = "backtracking" /\ btState = "true" /\ stack # <<>>) =>
        /\ stack[Len(stack)].pos = emptyCellPositions[Len(stack)]
        /\ SucceedingValues # {}
        /\ stack[Len(stack)].value = Min(SucceedingValues)

\* A call is about to write a value above 1 after a smaller value that was
\* possible for its cell made the cells after it impossible to fill.
C13_Witness ==
    /\ phase = "backtracking"
    /\ btState = "true"
    /\ stack # <<>>
    /\ Len(stack) < Len(emptyCellPositions)
    /\ \E v \in 1 .. (stack[Len(stack)].value - 1) :
           grid_possible(TablesBefore(grid, Len(stack)),
                         emptyCellPositions[Len(stack)][1],
                         emptyCellPositions[Len(stack)][2], v)

(***************************************************************************)
(* C14.  The 4x4 grid with all cells empty: the solver returns success;    *)
(* every row, column and block of the output is a permutation of 1 .. 4;   *)
(* every value technique_backtracking writes is the least one with which   *)
(* the cells visited after it can be filled; and every run ends with the   *)
(* same grid.                                                              *)
(***************************************************************************)
AllEmpty == \A pos \in Positions : input[pos] = 0

\* The output of every run on the empty 4x4 grid, by rows.
EmptyGridOutput == <<<<1, 2, 3, 4>>, <<3, 4, 1, 2>>, <<2, 1, 4, 3>>, <<4, 3, 2, 1>>>>

C14_EmptyGrid ==
    (N = 2 /\ AllEmpty /\ phase # "load") =>
        /\ phase \notin {"invalid_data", "aborted"}
        /\ build = "any"
        /\ (phase = "backtracking" /\ btState = "true" /\ stack # <<>>) =>
               stack[Len(stack)].value = Min(SucceedingValues)
        /\ phase = "done" =>
               /\ result = "success"
               /\ Legal
               /\ \A pos \in Positions :
                      Value(pos) = EmptyGridOutput[pos[1] + 1][pos[2] + 1]

\* The run on the empty grid has returned after filling all sixteen cells
\* by backtracking.
C14_Witness ==
    /\ AllEmpty
    /\ phase = "done"
    /\ result = "success"
    /\ Len(emptyCellPositions) = CellCount

(***************************************************************************)
(* C15.  Techniques never fail: from a grid the loader accepts, no         *)
(* assertion fails and nothing aborts during propagation; every call of    *)
(* grid_cell_provideValue has a value of 1 .. grid_size, an empty cell and *)
(* grid_possible true; every removal has a candidate of 1 .. grid_size;    *)
(* and technique_hiddenSingleton_findUniqueCandidate never falls through   *)
(* to dbg_fail.                                                            *)
(***************************************************************************)
C15_TechniquesNeverFail ==
    /\ phase # "aborted"
    /\ build = "any"
    /\ (Propagating /\ queue # <<>>) =>
           /\ Head(queue).op = "provideValue" =>
                  grid_cell_provideValue_asserts(grid, Head(queue).row,
                                                 Head(queue).column, Head(queue).candidate)
           /\ Head(queue).op = "removeCandidate" => Head(queue).candidate \in Values
    /\ (phase = "simple" /\ queue = <<>> /\ cellIdx < CellCount) =>
           \A q \in 0 .. 2 :
               ~hiddenSingleton_find(grid, q, PosOf(cellIdx)[1], PosOf(cellIdx)[2]).failed

(***************************************************************************)
(* C16.  grid_cell_removeCandidate(g, r, c, v) has three outcomes.  If the *)
(* cell lacks v it returns false and changes nothing.  If v is the only    *)
(* candidate of the cell it sets the value to v, empties the candidates,   *)
(* sets the count to 0, marks v not free in the row, column and block of   *)
(* the cell and returns true.  Otherwise it drops v, decrements the count  *)
(* and returns true.  No other cell and no other candidate of the cell is  *)
(* changed.  (The returned flag is observed where the caller accumulates   *)
(* it into its progress flag.)                                             *)
(***************************************************************************)
C16_RemoveCandidateOutcomes ==
    [][(Propagating /\ queue # <<>> /\ Head(queue).op = "removeCandidate") =>
          LET call == Head(queue)
              pos == <<call.row, call.column>>
              v == call.candidate
              cell == grid.cells[pos]
              Returned(flag) ==
                  call.accumulate => (techProgress' = (techProgress \/ flag))
          IN  /\ \A other \in Positions \ {pos} : grid'.cells[other] = grid.cells[other]
              /\ IF ~cell.hasCandidate[v]
                 THEN grid' = grid /\ Returned(FALSE)
                 ELSE IF Candidates(grid, pos) = {v}
                 THEN /\ grid'.cells[pos] =
                             [value |-> v,
                              hasCandidate |-> [w \in Slots |-> FALSE],
                              candidateCount |-> 0]
                      /\ grid'.isRowFree =
                             [grid.isRowFree EXCEPT ![pos[1]][v] = FALSE]
                      /\ grid'.isColumnFree =
                             [grid.isColumnFree EXCEPT ![pos[2]][v] = FALSE]
                      /\ grid'.isBlockFree =
                             [grid.isBlockFree EXCEPT ![BlockOf(pos)][v] = FALSE]
                      /\ Returned(TRUE)
                 ELSE /\ grid'.cells[pos] =
                             [cell EXCEPT !.hasCandidate[v] = FALSE,
                                          !.candidateCount = cell.candidateCount - 1]
                      /\ grid'.isRowFree = grid.isRowFree
                      /\ grid'.isColumnFree = grid.isColumnFree
                      /\ grid'.isBlockFree = grid.isBlockFree
                      /\ Returned(TRUE)]_vars

\* A call whose flag the caller accumulates is about to remove the only
\* candidate of a cell, after an earlier removal has left another cell of
\* the grid with fewer candidates than grid_load gave it.
C16_Witness ==
    /\ Propagating
    /\ queue # <<>>
    /\ Head(queue).op = "removeCandidate"
    /\ Head(queue).accumulate
    /\ Candidates(grid, <<Head(queue).row, Head(queue).column>>) = {Head(queue).candidate}
    /\ \E pos \in Positions :
           /\ Value(pos) = 0
           /\ Candidates(grid, pos) # {}
           /\ Candidates(grid, pos) # Candidates(passEntry, pos)

(***************************************************************************)
(* C17.  Naked single: technique_nakedSingleton is called on an empty cell *)
(* (r, c).  When the cell has exactly one candidate v, the technique       *)
(* returns true, the cell ends with the value v, and no cell of row r,     *)
(* column c or the block of (r, c) has v as a candidate afterwards.  When  *)
(* the candidate count is not 1 it returns false and changes nothing.      *)
(***************************************************************************)
\* The cells that share the row, the column or the block of pos (pos too).
Peers(pos) == RowGroup(pos[1]) \cup ColumnGroup(pos[2]) \cup BlockGroup(BlockOf(pos))

\* The grid the returning technique was called on, when it made all its
\* calls from a single scan: the grid it scanned, or the current grid when
\* it made no call.
Entered == IF part = 0 THEN grid ELSE scanned

C17_NakedSingle ==
    [][(phase = "simple" /\ tech = 1 /\ tech' = 2) =>
          LET pos == PosOf(cellIdx)
          IN  /\ Entered.cells[pos].value = 0
              /\ passProgress' = (passProgress \/ techProgress)
              /\ IF Entered.cells[pos].candidateCount = 1
                 THEN \E v \in Values :
                          /\ Candidates(Entered, pos) = {v}
                          /\ techProgress
                          /\ Value(pos) = v
                          /\ \A q \in Peers(pos) : ~grid.cells[q].hasCandidate[v]
                 ELSE ~techProgress /\ grid = Entered]_vars

\* technique_nakedSingleton is about to return after it has committed the
\* only candidate of its cell and removed it from a cell of the block that
\* is neither in the row nor in the column of the cell.
C17_Witness ==
    /\ phase = "simple"
    /\ tech = 1
    /\ part = 1
    /\ queue = <<>>
    /\ LET pos == PosOf(cellIdx)
       IN  /\ scanned.cells[pos].candidateCount = 1
           /\ Value(pos) \in Candidates(scanned, pos)
           /\ \E q \in BlockGroup(BlockOf(pos)) :
                  /\ q[1] # pos[1]
                  /\ q[2] # pos[2]
                  /\ scanned.cells[q].hasCandidate[Value(pos)]
                  /\ ~grid.cells[q].hasCandidate[Value(pos)]

(***************************************************************************)
(* C18.  Cascading commit: during a naked single on a cell with the only   *)
(* candidate v, a peer cell that the removal of v leaves with exactly one  *)
(* candidate receives that remaining candidate as its value within the     *)
(* same call.                                                              *)
(***************************************************************************)
C18_CascadingCommit ==
    [][(phase = "simple" /\ tech = 1 /\ tech' = 2 /\ part = 1) =>
          LET pos == PosOf(cellIdx)
          IN  \A v \in Candidates(scanned, pos) :
                  \A q \in Peers(pos) \ {pos} : \A w \in Values \ {v} :
                      Candidates(scanned, q) = {v, w} => Value(q) = w]_vars

\* C18 as amended: during a naked single on a cell with the only candidate
\* v, the removal of v commits a cell only when v is the only candidate of
\* that cell, and then with the value v (this is how the target cell
\* receives v); every other peer keeps its value and loses only the
\* candidate v, so that a peer left with exactly one candidate keeps that
\* candidate and stays empty within the call; cells that are no peers are
\* not changed.
C18_CommitOnLastRemoval ==
    [][(phase = "simple" /\ tech = 1 /\ tech' = 2 /\ part = 1) =>
          LET pos == PosOf(cellIdx)
          IN  \A v \in Candidates(scanned, pos) :
                  \A q \in Positions :
                      IF q \notin Peers(pos)
                      THEN grid.cells[q] = scanned.cells[q]
                      ELSE IF Candidates(scanned, q) = {v}
                      THEN grid.cells[q] =
                               [value |-> v,
                                hasCandidate |-> [w \in Slots |-> FALSE],
                                candidateCount |-> 0]
                      ELSE /\ Value(q) = scanned.cells[q].value
                           /\ Candidates(grid, q) = Candidates(scanned, q) \ {v}
                           /\ grid.cells[q].candidateCount =
                                  Cardinality(Candidates(scanned, q) \ {v})]_vars

\* technique_nakedSingleton is about to return, and a peer that had the
\* two candidates v and w is left empty with the single candidate w.
C18_Witness ==
    /\ phase = "simple"
    /\ tech = 1
    /\ part = 1
    /\ queue = <<>>
    /\ LET pos == PosOf(cellIdx)
       IN  \E v \in Candidates(scanned, pos) :
               \E q \in Peers(pos) \ {pos} : \E w \in Values \ {v} :
                   /\ Candidates(scanned, q) = {v, w}
                   /\ Value(q) = 0
                   /\ Candidates(grid, q) = {w}

(***************************************************************************)
(* C19.  Hidden single: technique_hiddenSingleton scans the block, then    *)
(* the row, then the column of its cell.  For each group the search        *)
(* returns the lowest value v that is a candidate of exactly one cell of   *)
(* the group, with the position p of that cell, or 0 when no value has     *)
(* count one.  On a hit p receives the value v, v is removed from the two  *)
(* other groups of p, and afterwards no empty cell of the row, the column  *)
(* or the block of p has v as a candidate.                                 *)
(***************************************************************************)
\* The group scanned q-th (from 0) for the cell pos.
ScannedGroup(q, pos) ==
    IF q = 0 THEN BlockGroup(BlockOf(pos))
    ELSE IF q = 1 THEN RowGroup(pos[1])
    ELSE ColumnGroup(pos[2])

Holders(g, group, v) == {p \in group : g.cells[p].hasCandidate[v]}

\* The values that are a candidate of exactly one cell of the group.
UniqueValues(g, group) == {v \in Values : Cardinality(Holders(g, group, v)) = 1}

PairPartners(g, pos) ==
    {q \in BlockGroup(BlockOf(pos)) \ {pos} : Candidates(g, q) = Candidates(g, pos)}

\* technique_nakedPair returns to the pass.
NakedPairReturns == phase = "simple" /\ tech = 3 /\ tech' = 4

\* What the elimination of the pair of pos leaves of the grid e.
PairEliminated(e, pos) ==
    LET target == Candidates(e, pos)
        keep == PairPartners(e, pos) \cup {pos}
    IN  \A q \in Positions :
            IF q \in BlockGroup(BlockOf(pos)) \ keep
            THEN /\ Candidates(grid, q) \cap target = {}
                 /\ Candidates(grid, q) \subseteq Candidates(e, q)
            ELSE grid.cells[q] = e.cells[q]

BothHolders(g, group, v1, v2) == {q \in group : {v1, v2} \subseteq Candidates(g, q)}

\* Conditions (1) and (2).
HiddenPairShape(g, group, pos, v1, v2) ==
    LET both == BothHolders(g, group, v1, v2)
    IN  /\ Cardinality(both) = 2
        /\ pos \in both
        /\ \A q \in group \ both : Candidates(g, q) \cap {v1, v2} = {}

\* Conditions (1), (2) and (3).
HiddenPairAccepted(g, group, pos, v1, v2) ==
    /\ HiddenPairShape(g, group, pos, v1, v2)
    /\ \E q \in BothHolders(g, group, v1, v2) : Candidates(g, q) # {v1, v2}

\* technique_hiddenPair is about to scan (or is at) group q of its cell.
HiddenPairScans(q) ==
    /\ phase = "simple"
    /\ tech = 4
    /\ queue = <<>>
    /\ cellIdx < CellCount
    /\ Cardinality(Candidates(grid, PosOf(cellIdx))) >= 2
    /\ q \in part .. 2
    /\ \A q0 \in part .. (q - 1) : TechniqueCalls(4, q0, PosOf(cellIdx)) = <<>>

\* What technique_hiddenPair_findPairCells answers for the pair on group q.
FindPairCellsAccepts(q, pos, v1, v2) ==
    LET rg == GroupRange(q, pos[1], pos[2])
    IN  technique_hiddenPair_findPairCells(grid, <<v1, v2>>, rg[1], rg[2], rg[3], rg[4],
                                           pos).found

\* The pairs of candidates of pos the two nested loops reach on group q:
\* those up to the first one accepted.
PairsTried(q, pos) ==
    {pr \in Values \X Values :
        /\ pr[1] < pr[2]
        /\ {pr[1], pr[2]} \subseteq Candidates(grid, pos)
        /\ \A qr \in Values \X Values :
               (/\ qr[1] < qr[2]
                /\ {qr[1], qr[2]} \subseteq Candidates(grid, pos)
                /\ (qr[1] < pr[1] \/ (qr[1] = pr[1] /\ qr[2] < pr[2])))
               => ~FindPairCellsAccepts(q, pos, qr[1], qr[2])}

\* The answers of technique_hiddenPair_findPairCells are those of (1)-(3).
HiddenPairAcceptance ==
    \A q \in 0 .. 2 : HiddenPairScans(q) =>
        \A pr \in PairsTried(q, PosOf(cellIdx)) :
            FindPairCellsAccepts(q, PosOf(cellIdx), pr[1], pr[2])
            <=> HiddenPairAccepted(grid, ScannedGroup(q, PosOf(cellIdx)),
                                   PosOf(cellIdx), pr[1], pr[2])

\* A part of technique_hiddenPair has run its removals.
HiddenPairDone == phase = "simple" /\ tech = 4 /\ queue = <<>> /\ part >= 1

\* The pair cells of the shape in e end with exactly {v1, v2}, the other
\* cells as in e.
HiddenPairEliminated(e, group, v1, v2) ==
    \A q \in Positions :
        IF q \in BothHolders(e, group, v1, v2)
        THEN /\ Candidates(grid, q) = {v1, v2}
             /\ grid.cells[q].candidateCount = 2
             /\ Value(q) = 0
        ELSE grid.cells[q] = e.cells[q]

HiddenPairElimination ==
    HiddenPairDone =>
        LET pos == PosOf(cellIdx)
            group == ScannedGroup(part - 1, pos)
        IN  \E v1, v2 \in Values :
                /\ v1 < v2
                /\ HiddenPairAccepted(scanned, group, pos, v1, v2)
                /\ HiddenPairEliminated(scanned, group, v1, v2)

C21_HiddenPair == HiddenPairAcceptance /\ HiddenPairElimination

(***************************************************************************)
(* C22.  X-wing: technique_x_wing removes the candidate v from a cell only *)
(* when the cell lies on one of the two rows (r1, r2) of a vertical        *)
(* pattern and outside its two columns (c1 < c2), where each of the two    *)
(* columns has exactly two cells with candidate v and those cells are on   *)
(* rows r1 and r2, or the row/column dual; for a grid containing one such  *)
(* pattern, v is removed from every cell of rows r1 and r2 outside columns *)
(* c1 and c2 and from no other cell, the four corner cells keep v, and no  *)
(* candidate other than a pattern's v is touched.                          *)
(***************************************************************************)
\* The cell at offset i of line `line`: lines are columns for a vertical
\* pattern and rows for a horizontal one.
LineCell(vertical, line, i) == IF vertical THEN <<i, line>> ELSE <<line, i>>

\* The patterns: orientation, the two lines, the two offsets, the value.
XWingPatterns ==
    {p \in [vertical : BOOLEAN, a : Axis, b : Axis, i1 : Axis, i2 : Axis, v : Values] :
        p.a < p.b /\ p.i1 < p.i2}

\* Each of the two lines has the candidate on exactly the two offsets.
XWingPatternIn(g, p) ==
    \A line \in {p.a, p.b} :
        {i \in Axis : g.cells[LineCell(p.vertical, line, i)].hasCandidate[p.v]}
            = {p.i1, p.i2}

\* The cells of the two crossing lines outside the two lines of the pattern.
XWingTargets(p) ==
    {LineCell(p.vertical, line, i) : line \in Axis \ {p.a, p.b}, i \in {p.i1, p.i2}}

XWingCorners(p) ==
    {LineCell(p.vertical, line, i) : line \in {p.a, p.b}, i \in {p.i1, p.i2}}

\* From e to the grid, exactly the value of p has gone from the targets of p.
XWingEliminated(e, p) ==
    /\ \A q \in XWingTargets(p) : Candidates(grid, q) = Candidates(e, q) \ {p.v}
    /\ \A q \in Positions \ XWingTargets(p) : Candidates(grid, q) = Candidates(e, q)
    /\ \A q \in XWingCorners(p) : p.v \in Candidates(grid, q)

\* Every removal by technique_x_wing takes the value of a pattern of the
\* grid from one of its targets and touches no other candidate.
XWingRemovesOnlyOnPattern ==
    [][(phase = "x_wing" /\ grid' # grid) =>
          \E p \in XWingPatterns :
              /\ XWingPatternIn(grid, p)
              /\ \E q \in XWingTargets(p) :
                     /\ p.v \in Candidates(grid, q)
                     /\ Candidates(grid', q) = Candidates(grid, q) \ {p.v}
                     /\ \A q2 \in Positions \ {q} :
                            Candidates(grid', q2) = Candidates(grid, q2)]_vars

\* technique_x_wing returns to the facade.
XWingReturns == phase = "x_wing" /\ phase' = "until"

\* The patterns of the grid g.
XWingPatternsOf(g) == {p \in XWingPatterns : XWingPatternIn(g, p)}

\* A call entered with exactly one pattern leaves exactly its elimination.
XWingOnePattern ==
    [][XWingReturns =>
          LET found == XWingPatternsOf(xwEntry)
          IN  Cardinality(found) = 1 =>
                  \A p \in found : XWingEliminated(xwEntry, p)]_vars

\* An iteration of technique_x_wing that found its pattern has run its
\* removals: exactly the elimination of a pattern of the grid it scanned.
XWingIterationDone == phase = "x_wing" /\ part >= 2 /\ queue = <<>>

XWingEachPattern ==
    [](XWingIterationDone =>
          \E p \in XWingPatternsOf(scanned) : XWingEliminated(scanned, p))

C22_XWing == XWingRemovesOnlyOnPattern /\ XWingEachPattern /\ XWingOnePattern

\* technique_x_wing has returned from a grid with exactly one pattern and
\* has removed its value from a cell.
C22_Witness ==
    /\ phase = "until"
    /\ Cardinality(XWingPatternsOf(xwEntry)) = 1
    /\ \E p \in XWingPatternsOf(xwEntry) : \E q \in XWingTargets(p) :
           /\ p.v \in Candidates(xwEntry, q)
           /\ Candidates(grid, q) = Candidates(xwEntry, q) \ {p.v}
           /\ Candidates(grid, q) # {}

(***************************************************************************)
(* C23.  Progress flag accuracy: each technique and                        *)
(* perform_simpleTechniques returns true if and only if the call           *)
(* eliminated at least one candidate or committed at least one value; a    *)
(* call that returns false leaves cell values, candidates, candidate       *)
(* counts and availability tables unchanged.                               *)
(***************************************************************************)
\* The grid the running call of a technique of the pass was entered with.
CallEntry == IF part = 0 THEN grid ELSE called

\* A technique of the pass returns its flag techProgress.
TechniqueReturns ==
    /\ phase = "simple"
    /\ queue = <<>>
    /\ cellIdx < CellCount
    /\ phase' = "simple"
    /\ (tech' # tech \/ cellIdx' # cellIdx)

\* perform_simpleTechniques returns its flag passProgress.
PassReturns == phase = "simple" /\ phase' = "x_wing"

\* The flag `flag` of a call entered with the grid e is accurate.
ProgressAccurate(flag, e) ==
    /\ flag => grid.cells # e.cells
    /\ ~flag => grid = e

TechniqueFlagAccurate == [][TechniqueReturns => ProgressAccurate(techProgress, CallEntry)]_vars

XWingFlagAccurate == [][XWingReturns => ProgressAccurate(techProgress, xwEntry)]_vars

PassFlagAccurate == [][PassReturns => ProgressAccurate(passProgress, passEntry)]_vars

C23_ProgressFlag == TechniqueFlagAccurate /\ XWingFlagAccurate /\ PassFlagAccurate

\* technique_nakedPair has found a partner, has run its loop on the block
\* without eliminating anything and is about to return false.
C23_Witness ==
    /\ phase = "simple"
    /\ tech = 3
    /\ part = 1
    /\ queue = <<>>
    /\ ~techProgress
    /\ grid = called
    /\ PairPartners(called, PosOf(cellIdx)) # {}

(***************************************************************************)
(* C24.  Termination: from any grid the loader accepts the facade loop     *)
(* performs only finitely many passes, because every pass that reports     *)
(* progress strictly decreases the total number of candidates plus the     *)
(* number of empty cells; the following technique_backtracking call then   *)
(* returns after finitely many steps.                                      *)
(***************************************************************************)
\* The number of candidates plus the number of empty cells from cell k on.
RECURSIVE MeasureFrom(_, _)
MeasureFrom(g, k) ==
    IF k = CellCount THEN 0
    ELSE Cardinality(Candidates(g, PosOf(k)))
         + (IF g.cells[PosOf(k)].value = 0 THEN 1 ELSE 0)
         + MeasureFrom(g, k + 1)

Measure(g) == MeasureFrom(g, 0)

\* At the loop test after a pass (perform_simpleTechniques, then
\* technique_x_wing) that reports progress the measure is below that of the
\* grid the pass was entered with.
PassDecreases == (phase = "until" /\ progress) => Measure(grid) < Measure(passEntry)

\* The program has ended: with a result, on a rejected file, or on a failed
\* assertion.
Terminated == phase \in {"done", "invalid_data", "aborted"}

\* The program keeps running until it has ended: weak fairness of Next,
\* with ENABLED <<Next>>_vars written out as ~Terminated (a step is possible
\* in exactly the states that are not Terminated).
SpecLive ==
    /\ Init
    /\ [][Next]_vars
    /\ WF_vars(Load)
    /\ ([]<>Terminated \/ []<><<Next>>_vars)

C24_Termination == []PassDecreases /\ <>Terminated

\* The program has ended after a second pass and a call of
\* technique_backtracking.
C24_Witness ==
    /\ phase = "done"
    /\ passEntry # grid_load(input).grid
    /\ Measure(passEntry) < Measure(grid_load(input).grid)
    /\ emptyCellPositions # <<>>

(***************************************************************************)
(* C25.  Backtracking failure leaves the grid as it found it: when         *)
(* technique_backtracking returns false every tentative                    *)
(* grid_markValueFree(false, ...) has been undone, so the three            *)
(* availability tables and all cell values are what they were at entry to  *)
(* that call; a cell value is written only on the path that returns        *)
(* success.                                                                *)
(***************************************************************************)
\* The call of the top frame returns false.
BacktrackingReturnsFalse == phase = "backtracking" /\ btState = "loop" /\ btState' = "false"

FailureRestores ==
    [][BacktrackingReturnsFalse =>
          /\ grid = stack[Len(stack)].entry
          /\ grid' = grid]_vars

\* A step of technique_backtracking that changes a cell is the write of a
\* call whose recursive call has returned true, and that call returns true.
ValueWrittenOnSuccess ==
    [][(phase = "backtracking" /\ grid'.cells # grid.cells) =>
          /\ btState = "true"
          /\ btState' = "true"
          /\ stack # <<>>
          /\ grid' = [grid EXCEPT !.cells[stack[Len(stack)].pos].value =
                                       stack[Len(stack)].value]]_vars

C25_BacktrackingFailure == FailureRestores /\ ValueWrittenOnSuccess

\* The outermost call has returned false after a tentative value on its
\* cell: the value is possible again on the grid it leaves.
C25_Witness ==
    /\ phase = "done"
    /\ result = "failure"
    /\ emptyCellPositions # <<>>
    /\ \E value \in Values :
           grid_possible(grid, emptyCellPositions[1][1], emptyCellPositions[1][2], value)

(***************************************************************************)
(* C26.  Backtracking search result: technique_backtracking(grid, E,       *)
(* count, 0) returns true if and only if there is an assignment of values  *)
(* in 1 .. S to all positions of E in which no value assigned to a         *)
(* position is marked not-free in that position's row, column or block at  *)
(* entry and no two positions of E sharing a row, column or block get the  *)
(* same value; when it returns true every position of E holds such a value *)
(* and the availability tables mark exactly the values present at entry    *)
(* plus the values written.                                                *)
(***************************************************************************)
\* v is marked free in the row, the column and the block of pos in e.
FreeAtEntry(e, pos, v) ==
    /\ e.isRowFree[pos[1]][v]
    /\ e.isColumnFree[pos[2]][v]
    /\ e.isBlockFree[<<pos[1] \div N, pos[2] \div N>>][v]

SharesGroup(p, q) == p[1] = q[1] \/ p[2] = q[2] \/ BlockOf(p) = BlockOf(q)

\* a gives every position of its domain a value free at entry, and no two
\* positions sharing a group the same value.
GoodAssignment(e, a) ==
    \A p \in DOMAIN a :
        /\ a[p] \in Values
        /\ FreeAtEntry(e, p, a[p])
        /\ \A q \in DOMAIN a \ {p} : SharesGroup(p, q) => a[q] # a[p]

\* The good assignment a can be extended to all of `cells`.
RECURSIVE Extends(_, _, _)
Extends(e, a, cells) ==
    IF cells = {} THEN TRUE
    ELSE LET pos == CHOOSE p \in cells : TRUE
         IN  \E v \in Values :
                 /\ FreeAtEntry(e, pos, v)
                 /\ \A q \in DOMAIN a : SharesGroup(pos, q) => a[q] # v
                 /\ Extends(e, [p \in DOMAIN a \cup {pos} |-> IF p = pos THEN v ELSE a[p]],
                            cells \ {pos})

\* There is a good assignment to all positions of the list E.
HasAssignment(e, E) == Extends(e, [p \in {} |-> 0], Range(E))

\* The outermost call writes its value and returns true.
TopReturnsTrue == phase = "backtracking" /\ btState = "true" /\ Len(stack) = 1

\* The outermost call returns false.
TopReturnsFalse == BacktrackingReturnsFalse /\ Len(stack) = 1

\* The tables of g mark exactly the values marked in e and the values the
\* positions of E hold in g.
TablesMarkEntryPlusWritten(e, g, E) ==
    LET Written(group, v) == \E p \in Range(E) \cap group : g.cells[p].value = v
    IN  /\ \A r \in Axis : \A v \in Values :
               g.isRowFree[r][v] <=> (e.isRowFree[r][v] /\ ~Written(RowGroup(r), v))
        /\ \A c \in Axis : \A v \in Values :
               g.isColumnFree[c][v] <=> (e.isColumnFree[c][v] /\ ~Written(ColumnGroup(c), v))
        /\ \A b \in BlockAxis \X BlockAxis : \A v \in Values :
               g.isBlockFree[b][v] <=> (e.isBlockFree[b][v] /\ ~Written(BlockGroup(b), v))

C26_BacktrackingResult ==
    /\ [][TopReturnsTrue =>
             LET e == stack[1].entry
             IN  /\ HasAssignment(e, emptyCellPositions)
                 /\ GoodAssignment(e, [p \in Range(emptyCellPositions) |->
                                          grid'.cells[p].value])
                 /\ TablesMarkEntryPlusWritten(e, grid', emptyCellPositions)]_vars
    /\ [][TopReturnsFalse => ~HasAssignment(stack[1].entry, emptyCellPositions)]_vars

\* The outermost call has just returned true on a list with positions that
\* share a group, after its first position had to give up the value 1.
C26_Witness ==
    /\ phase = "backtracking"
    /\ btState = "true"
    /\ stack = <<>>
    /\ Len(emptyCellPositions) >= 2
    /\ \E p, q \in Range(emptyCellPositions) : p # q /\ SharesGroup(p, q)
    /\ \A p \in Range(emptyCellPositions) : Value(p) \in Values
    /\ Value(emptyCellPositions[1]) > 1

====
